---------------------------- MODULE Spec2Model ----------------------------
(***************************************************************************)
(* Model of scrapy_tilda_site.py: the recursive tree reducer process_node, *)
(* the whitespace normaliser minify_html and the pipeline of main.         *)
(*                                                                         *)
(* A Python str is a sequence of one-character strings, so that strip,     *)
(* lower, join, the f-string markers and re.sub act on characters.  A node *)
(* of the BeautifulSoup tree is a record                                   *)
(*   [kind, name, attrs, data, children]                                   *)
(* where kind is the node's class, name the tag name, attrs the attribute  *)
(* list, data the character data of a string node, children the ordered    *)
(* child list.                                                             *)
(***************************************************************************)
EXTENDS Integers, Sequences, FiniteSets, TLC

VARIABLES pc, response, soup, extracted, minified, output_file, stdout, calls

vars == <<pc, response, soup, extracted, minified, output_file, stdout, calls>>

-----------------------------------------------------------------------------
(* Bounds of the checked input families.                                   *)

\* Largest number of children of a generated element.
MaxChildren == 2

\* Largest length of a string handed directly to minify_html.
MaxLen == 5

-----------------------------------------------------------------------------
(* Characters and the str methods the program uses.                        *)

UpperLetters == <<"A","B","C","D","E","F","G","H","I","J","K","L","M",
                  "N","O","P","Q","R","S","T","U","V","W","X","Y","Z">>

LowerLetters == <<"a","b","c","d","e","f","g","h","i","j","k","l","m",
                  "n","o","p","q","r","s","t","u","v","w","x","y","z">>

Whitespace == {" ", "\n", "\t"}

Char == {UpperLetters[i] : i \in 1..26} \cup {LowerLetters[i] : i \in 1..26}
        \cup Whitespace
        \cup {"1","2","3","4","5","6","<",">","/",":","[","]"}

\* str.isspace on one character: the class both str.strip and the regular
\* expression \s use.
isspace(c) == c \in Whitespace

\* str.lower on one character.
lower_char(c) ==
    IF \E i \in 1..26 : UpperLetters[i] = c
    THEN LowerLetters[CHOOSE i \in 1..26 : UpperLetters[i] = c]
    ELSE c

\* str.lower
lower(s) == [i \in 1..Len(s) |-> lower_char(s[i])]

\* Mutant of strip: str.rstrip in its place, the leading run is kept.
strip_rstrip_only(s) ==
    LET keep == {i \in 1..Len(s) : ~isspace(s[i])}
    IN  IF keep = {} THEN <<>>
        ELSE SubSeq(s, 1, CHOOSE i \in keep : \A j \in keep : j <= i)

\* str.strip: drops the leading and the trailing run of whitespace.
strip(s) ==
    LET keep == {i \in 1..Len(s) : ~isspace(s[i])}
    IN  IF keep = {} THEN <<>>
        ELSE SubSeq(s, CHOOSE i \in keep : \A j \in keep : i <= j,
                       CHOOSE i \in keep : \A j \in keep : j <= i)

\* str.lstrip, the part of a whitespace run the regular expression consumes.
lstrip(s) ==
    LET keep == {i \in 1..Len(s) : ~isspace(s[i])}
    IN  IF keep = {} THEN <<>>
        ELSE SubSeq(s, CHOOSE i \in keep : \A j \in keep : i <= j, Len(s))

-----------------------------------------------------------------------------
(* Tag names, attribute values and markers that occur in the program.      *)

\* Mutant of IGNORE_TAGS: "img" left out of the set.
IGNORE_TAGS_without_img ==
    { <<"s","c","r","i","p","t">>, <<"s","t","y","l","e">>,
      <<"n","o","s","c","r","i","p","t">>, <<"i","f","r","a","m","e">>,
      <<"i","n","p","u","t">>, <<"l","i","n","k">> }

IGNORE_TAGS ==
    { <<"s","c","r","i","p","t">>, <<"s","t","y","l","e">>,
      <<"n","o","s","c","r","i","p","t">>, <<"i","f","r","a","m","e">>,
      <<"i","n","p","u","t">>, <<"i","m","g">>, <<"l","i","n","k">> }

\* Mutant of allowed_wrap: "b" added to the set.
allowed_wrap_with_b ==
    { <<"h","t","m","l">>, <<"h","e","a","d">>, <<"b","o","d","y">>,
      <<"d","i","v">>, <<"s","p","a","n">>, <<"p">>, <<"b">>,
      <<"h","1">>, <<"h","2">>, <<"h","3">>, <<"h","4">>, <<"h","5">>, <<"h","6">>,
      <<"l","i">>, <<"u","l">>, <<"o","l">>, <<"a">>,
      <<"b","u","t","t","o","n">>, <<"n","a","v">>, <<"f","o","r","m">> }

allowed_wrap ==
    { <<"h","t","m","l">>, <<"h","e","a","d">>, <<"b","o","d","y">>,
      <<"d","i","v">>, <<"s","p","a","n">>, <<"p">>,
      <<"h","1">>, <<"h","2">>, <<"h","3">>, <<"h","4">>, <<"h","5">>, <<"h","6">>,
      <<"l","i">>, <<"u","l">>, <<"o","l">>, <<"a">>,
      <<"b","u","t","t","o","n">>, <<"n","a","v">>, <<"f","o","r","m">> }

str_meta == <<"m","e","t","a">>

str_title == <<"t","i","t","l","e">>

str_description == <<"d","e","s","c","r","i","p","t","i","o","n">>

str_og_description == <<"o","g",":">> \o str_description

str_Title == <<"T","i","t","l","e">>

str_Description == <<"D","e","s","c","r","i","p","t","i","o","n">>

\* f"<{tag}>{content}</{tag}>"
wrap(tag, content) ==
    <<"<">> \o tag \o <<">">> \o content \o <<"<","/">> \o tag \o <<">">>

-----------------------------------------------------------------------------
(* Nodes of the parsed tree.                                               *)

\* bs4.Comment, a subclass of NavigableString.
Comment(d) ==
    [kind |-> "Comment", name |-> <<>>, attrs |-> <<>>, data |-> d,
     children |-> <<>>]

\* bs4.NavigableString
NavigableString(d) ==
    [kind |-> "NavigableString", name |-> <<>>, attrs |-> <<>>, data |-> d,
     children |-> <<>>]

\* bs4.Tag
Tag(n, as, cs) ==
    [kind |-> "Tag", name |-> n, attrs |-> as, data |-> <<>>, children |-> cs]

\* An object with no attribute 'name'.
Nameless ==
    [kind |-> "object", name |-> <<>>, attrs |-> <<>>, data |-> <<>>,
     children |-> <<>>]

\* The BeautifulSoup object: a Tag named "[document]".
BeautifulSoup(cs) ==
    Tag(<<"[","d","o","c","u","m","e","n","t","]">>, <<>>, cs)

\* isinstance(node, Comment)
isinstance_Comment(node) == node.kind = "Comment"

\* isinstance(node, NavigableString): true of a Comment too.
isinstance_NavigableString(node) == node.kind \in {"NavigableString", "Comment"}

\* hasattr(node, 'name')
hasattr_name(node) == node.kind # "object"

\* node.get(key, default): the attribute's value, the default when absent.
get(node, key, default) ==
    IF \E i \in 1..Len(node.attrs) : node.attrs[i].key = key
    THEN node.attrs[CHOOSE i \in 1..Len(node.attrs) : node.attrs[i].key = key].value
    ELSE default

-----------------------------------------------------------------------------
(* process_node                                                            *)

RECURSIVE process_node(_)
RECURSIVE join_children(_)

\* Mutant of join_children: the parts are joined last child first.
RECURSIVE join_children_reversed(_)
join_children_reversed(children) ==
    IF children = <<>> THEN <<>>
    ELSE join_children_reversed(Tail(children)) \o process_node(Head(children))

\* "".join(process_node(child) for child in node.children)
join_children(children) ==
    IF children = <<>> THEN <<>>
    ELSE process_node(Head(children)) \o join_children(Tail(children))

\* Mutant of process_meta: both attributes must match (and for or).
process_meta_both(node) ==
    LET name_attr == lower(get(node, "name", <<>>))
        prop_attr == lower(get(node, "property", <<>>))
    IN  IF name_attr = str_description /\ prop_attr = str_og_description
        THEN LET content == strip(get(node, "content", <<>>))
             IN  IF content # <<>>
                 THEN wrap(str_Description, content)
                 ELSE <<>>
        ELSE <<>>

\* The meta branch of process_node.
process_meta(node) ==
    LET name_attr == lower(get(node, "name", <<>>))
        prop_attr == lower(get(node, "property", <<>>))
    IN  IF name_attr = str_description \/ prop_attr = str_og_description
        THEN LET content == strip(get(node, "content", <<>>))
             IN  IF content # <<>>
                 THEN wrap(str_Description, content)
                 ELSE <<>>
        ELSE <<>>

\* The title branch of process_node.
process_title(node) ==
    LET content == strip(join_children(node.children))
    IN  IF content # <<>> THEN wrap(str_Title, content) ELSE <<>>

\* Mutant of process_children: the test for empty content is missing.
process_children_no_elision(node, tag) ==
    LET children_content == strip(join_children(node.children))
    IN  IF tag \in allowed_wrap THEN wrap(tag, children_content)
        ELSE children_content

\* The last branch of process_node: wrapped or transparent elements.
process_children(node, tag) ==
    LET children_content == strip(join_children(node.children))
    IN  IF children_content = <<>> THEN <<>>
        ELSE IF tag \in allowed_wrap THEN wrap(tag, children_content)
        ELSE children_content

\* Mutant of process_node: the NavigableString test comes first, so a
\* Comment (a NavigableString too) is handled as text.
process_node_text_first(node) ==
    IF isinstance_NavigableString(node) THEN strip(node.data)
    ELSE IF isinstance_Comment(node) THEN <<>>
    ELSE IF ~hasattr_name(node) THEN <<>>
    ELSE LET tag == lower(node.name)
         IN  IF tag \in IGNORE_TAGS THEN <<>>
             ELSE IF tag = str_meta THEN process_meta(node)
             ELSE IF tag = str_title THEN process_title(node)
             ELSE process_children(node, tag)

process_node(node) ==
    IF isinstance_Comment(node) THEN <<>>
    ELSE IF isinstance_NavigableString(node) THEN strip(node.data)
    ELSE IF ~hasattr_name(node) THEN <<>>
    ELSE LET tag == lower(node.name)
         IN  IF tag \in IGNORE_TAGS THEN <<>>
             ELSE IF tag = str_meta THEN process_meta(node)
             ELSE IF tag = str_title THEN process_title(node)
             ELSE process_children(node, tag)

\* The calls of process_node made while process_node(node) runs, in call
\* order, each named by the path (child indexes) from node to its argument.
RECURSIVE process_node_calls(_, _)
process_node_calls(node, path) ==
    IF isinstance_Comment(node) THEN <<path>>
    ELSE IF isinstance_NavigableString(node) THEN <<path>>
    ELSE IF ~hasattr_name(node) THEN <<path>>
    ELSE LET tag == lower(node.name)
             RECURSIVE over(_)
             over(i) == IF i > Len(node.children) THEN <<>>
                        ELSE process_node_calls(node.children[i], Append(path, i))
                             \o over(i + 1)
         IN  IF tag \in IGNORE_TAGS THEN <<path>>
             ELSE IF tag = str_meta THEN <<path>>
             ELSE <<path>> \o over(1)

-----------------------------------------------------------------------------
(* minify_html                                                             *)

RECURSIVE re_sub_whitespace(_)

\* Mutant of re_sub_whitespace: the pattern \s\s, whitespace is replaced
\* pair by pair.
RECURSIVE re_sub_whitespace_pairs(_)
re_sub_whitespace_pairs(s) ==
    IF s = <<>> THEN <<>>
    ELSE IF Len(s) >= 2 /\ isspace(s[1]) /\ isspace(s[2])
         THEN <<" ">> \o re_sub_whitespace_pairs(Tail(Tail(s)))
    ELSE <<Head(s)>> \o re_sub_whitespace_pairs(Tail(s))

\* re.sub(r'\s+', ' ', s): every maximal run of whitespace becomes one space.
re_sub_whitespace(s) ==
    IF s = <<>> THEN <<>>
    ELSE IF isspace(Head(s)) THEN <<" ">> \o re_sub_whitespace(lstrip(Tail(s)))
    ELSE <<Head(s)>> \o re_sub_whitespace(Tail(s))

minify_html(html_str) == strip(re_sub_whitespace(html_str))

-----------------------------------------------------------------------------
(* The input families: nodes handed to process_node.                       *)

\* All sequences over S of length at most n.
RECURSIVE SeqUpTo(_, _)
SeqUpTo(S, n) ==
    IF n = 0 THEN {<<>>}
    ELSE LET shorter == SeqUpTo(S, n - 1)
         IN  shorter \cup {Append(q, x) : q \in {r \in shorter : Len(r) = n - 1}, x \in S}

txt_Hi == NavigableString(<<"H","i">>)

txt_blank == NavigableString(<<" ">>)

\* Whitespace at both ends and a whitespace run inside.
txt_A_B == NavigableString(<<" ","A","\n"," ","B"," ">>)

\* Character data that spells a closing marker (the page wrote &lt;/p&gt;).
txt_angle == NavigableString(<<"<","/","p",">">>)

Attr(k, v) == [key |-> k, value |-> v]

meta_X == Tag(str_meta, <<Attr("name", str_description), Attr("content", <<" ","X"," ">>)>>, <<>>)

Leaves == {Comment(<<"c">>), txt_blank, txt_Hi, txt_A_B, txt_angle, Nameless}

\* Children of the generated elements: the leaves and small elements of
\* every kind (wrapped, transparent with an elided child, ignored, elided,
\* meta description).
Inner ==
    Leaves \cup
    { Tag(<<"p">>, <<>>, <<txt_Hi>>),
      Tag(<<"B">>, <<>>, <<txt_A_B, Tag(<<"s","p","a","n">>, <<>>, <<txt_blank>>)>>),
      Tag(<<"s","c","r","i","p","t">>, <<>>, <<txt_Hi>>),
      Tag(<<"s","p","a","n">>, <<>>, <<txt_blank>>),
      meta_X }

\* Tag names of the generated elements, in the case a tree builder may
\* hand them over.
TopTags ==
    { <<"h","t","m","l">>, <<"D","I","V">>, <<"b">>, str_title, str_meta,
      <<"s","c","r","i","p","t">>, <<"I","M","G">> }

Generated == {Tag(t, <<>>, cs) : t \in TopTags, cs \in SeqUpTo(Inner, MaxChildren)}

\* meta elements with every combination of the three attributes.
NameValues == {<<>>, str_description, str_Description, <<"k","e","y","w","o","r","d","s">>}

PropertyValues == {<<>>, str_og_description, <<"O","G",":">> \o str_Description, <<"o","g",":">> \o str_title}

ContentValues == {<<>>, <<" ","\n">>, <<" ","X","\t">>, <<"H","i"," ","X">>}

\* The attribute list with the attributes named in `present`, in source order.
AttrList(present, n, p, c) ==
    (IF "name" \in present THEN <<Attr("name", n)>> ELSE <<>>) \o
    (IF "property" \in present THEN <<Attr("property", p)>> ELSE <<>>) \o
    (IF "content" \in present THEN <<Attr("content", c)>> ELSE <<>>)

Metas ==
    { Tag(t, AttrList(present, n, p, c), cs) :
        t \in {str_meta, <<"M","e","t","a">>},
        present \in SUBSET {"name", "property", "content"},
        n \in NameValues, p \in PropertyValues, c \in ContentValues,
        cs \in {<<>>, <<txt_Hi>>} }

\* The trees of the specification's worked examples.
ex_div_p_span ==
    Tag(<<"d","i","v">>, <<>>,
        << Tag(<<"p">>, <<>>, <<txt_Hi>>),
           Tag(<<"s","p","a","n">>, <<>>, <<NavigableString(<<" "," ">>)>>) >>)

ex_title ==
    Tag(str_title, <<>>,
        << NavigableString(<<" ","A"," ">>),
           Tag(<<"b">>, <<>>, <<NavigableString(<<"B">>)>>),
           NavigableString(<<" ">>) >>)

ex_div_script ==
    Tag(<<"d","i","v">>, <<>>, <<Tag(<<"s","c","r","i","p","t">>, <<>>, <<txt_Hi>>)>>)

ex_three_children ==
    Tag(<<"d","i","v">>, <<>>, <<txt_Hi, Tag(<<"p">>, <<>>, <<txt_A_B>>), NavigableString(<<"B">>)>>)

ex_angle == Tag(<<"p">>, <<>>, <<txt_angle>>)

Examples == {ex_div_p_span, ex_title, ex_div_script, ex_three_children, ex_angle}

NodeInputs == Leaves \cup Generated \cup Metas \cup Examples

\* Python's None, where a str is expected.
None == <<"None">>

\* Python's None, where a node is expected.
NoneNode ==
    [kind |-> "NoneType", name |-> <<>>, attrs |-> <<>>, data |-> <<>>,
     children |-> <<>>]

NoResponse == [status_code |-> 0, text |-> NoneNode]

\* The output file before main runs: absent, or left by an earlier run.
NoFile == <<"ENOENT">>

StaleFile == <<"stale">>

-----------------------------------------------------------------------------
(* The documents main receives.  A response text is identified with the    *)
(* tree html.parser builds from it: lower-case tag names, no two adjacent  *)
(* strings, comments exposed as Comment nodes.                             *)

ParsedInner ==
    { Comment(<<"c">>), txt_blank, txt_Hi, txt_A_B,
      Tag(<<"p">>, <<>>, <<txt_Hi, Comment(<<" ","x"," ">>)>>),
      Tag(<<"b">>, <<>>, <<Comment(<<"c">>), txt_A_B>>),
      Tag(<<"s","c","r","i","p","t">>, <<>>, <<txt_Hi>>),
      meta_X }

ParsedTopTags == {<<"h","t","m","l">>, <<"d","i","v">>, <<"b">>, str_title}

\* The tree builder merges adjacent strings into one node.
NoAdjacentStrings(cs) ==
    \A i \in 1..(Len(cs) - 1) :
       ~(cs[i].kind = "NavigableString" /\ cs[i + 1].kind = "NavigableString")

Documents ==
    {BeautifulSoup(<<Tag(t, <<>>, cs)>>) :
        t \in ParsedTopTags,
        cs \in {q \in SeqUpTo(ParsedInner, MaxChildren) : NoAdjacentStrings(q)}}
    \cup
    { BeautifulSoup(<<>>),
      BeautifulSoup(<<Comment(<<"c">>), Tag(<<"h","t","m","l">>, <<>>, <<txt_Hi>>), Comment(<<"c">>)>>),
      BeautifulSoup(<<txt_Hi, Tag(<<"d","i","v">>, <<>>,
                         <<Comment(<<"c">>), Tag(<<"h","t","m","l">>, <<>>, <<txt_A_B, Comment(<<"c">>), txt_Hi>>)>>)>>) }

\* The bodies of the failed responses; main never reads them.
ErrorDocuments ==
    { BeautifulSoup(<<>>),
      BeautifulSoup(<<Tag(<<"h","t","m","l">>, <<>>, <<txt_Hi>>)>>) }

HTTP_OK == 200

StatusCodes == {HTTP_OK, 404, 500}

-----------------------------------------------------------------------------
(* The tree operations of main.                                            *)

\* Mutant of extract_comments: the filter matches every string, not only
\* the comments.
RECURSIVE extract_every_string(_)
extract_every_string(node) ==
    LET kept == SelectSeq(node.children, LAMBDA c : ~isinstance_NavigableString(c))
    IN  [node EXCEPT !.children = [i \in 1..Len(kept) |-> extract_every_string(kept[i])]]

\* for comment in soup.find_all(string=<is a Comment>): comment.extract()
\* The tree with every Comment below node taken out.
RECURSIVE extract_comments(_)
extract_comments(node) ==
    LET kept == SelectSeq(node.children, LAMBDA c : ~isinstance_Comment(c))
    IN  [node EXCEPT !.children = [i \in 1..Len(kept) |-> extract_comments(kept[i])]]

\* The nodes below node, in document order.
RECURSIVE descendants(_)
descendants(node) ==
    LET RECURSIVE over(_)
        over(i) == IF i > Len(node.children) THEN <<>>
                   ELSE <<node.children[i]>> \o descendants(node.children[i])
                        \o over(i + 1)
    IN  over(1)

\* soup.html: the first Tag named "html" below soup, None without one.
soup_html(tree) ==
    LET all == descendants(tree)
        hits == {i \in 1..Len(all) : all[i].kind = "Tag" /\ all[i].name = <<"h","t","m","l">>}
    IN  IF hits = {} THEN NoneNode
        ELSE all[CHOOSE i \in hits : \A j \in hits : i <= j]

\* root = soup.html if soup.html else soup
root(tree) == IF soup_html(tree) # NoneNode THEN soup_html(tree) ELSE tree

-----------------------------------------------------------------------------
(* main                                                                    *)

Init ==
    /\ pc = "requests_get"
    /\ response = NoResponse
    /\ soup = NoneNode
    /\ extracted = None
    /\ minified = None
    /\ output_file \in {NoFile, StaleFile}
    /\ stdout = <<>>
    /\ calls = <<>>

\* response = requests.get(url, headers=headers)
RequestsGet ==
    /\ pc = "requests_get"
    /\ \E status \in StatusCodes :
          \E body \in (IF status = HTTP_OK THEN Documents ELSE ErrorDocuments) :
             response' = [status_code |-> status, text |-> body]
    /\ calls' = Append(calls, "requests.get")
    /\ pc' = "check_status"
    /\ UNCHANGED <<soup, extracted, minified, output_file, stdout>>

\* requests.get raises (no connection): the exception leaves main.
RequestsGetRaises ==
    /\ pc = "requests_get"
    /\ calls' = Append(calls, "requests.get")
    /\ pc' = "raised"
    /\ UNCHANGED <<response, soup, extracted, minified, output_file, stdout>>

\* Mutant of CheckStatus: the status is not looked at.
CheckStatus_unchecked ==
    /\ pc = "check_status"
    /\ pc' = "parse"
    /\ UNCHANGED <<response, soup, extracted, minified, output_file, stdout, calls>>

\* if response.status_code != 200: print(...); return
CheckStatus ==
    /\ pc = "check_status"
    /\ IF response.status_code # HTTP_OK
       THEN /\ stdout' = Append(stdout, "request error")
            /\ pc' = "done"
       ELSE /\ stdout' = stdout
            /\ pc' = "parse"
    /\ UNCHANGED <<response, soup, extracted, minified, output_file, calls>>

\* soup = BeautifulSoup(html_text, "html.parser")
Parse ==
    /\ pc = "parse"
    /\ soup' = response.text
    /\ calls' = Append(calls, "BeautifulSoup")
    /\ pc' = "extract_comments"
    /\ UNCHANGED <<response, extracted, minified, output_file, stdout>>

\* The loop that extracts every comment.
ExtractComments ==
    /\ pc = "extract_comments"
    /\ soup' = extract_comments(soup)
    /\ pc' = "process_node"
    /\ UNCHANGED <<response, extracted, minified, output_file, stdout, calls>>

\* extracted = process_node(root)
ProcessNode ==
    /\ pc = "process_node"
    /\ extracted' = process_node(root(soup))
    /\ calls' = Append(calls, "process_node")
    /\ pc' = "minify_html"
    /\ UNCHANGED <<response, soup, minified, output_file, stdout>>

\* minified = minify_html(extracted)
MinifyHtml ==
    /\ pc = "minify_html"
    /\ minified' = minify_html(extracted)
    /\ calls' = Append(calls, "minify_html")
    /\ pc' = "write"
    /\ UNCHANGED <<response, soup, extracted, output_file, stdout>>

\* with open(output_file, "w", encoding="utf-8") as f: f.write(minified)
Write ==
    /\ pc = "write"
    /\ output_file' = minified
    /\ calls' = Append(calls, "write")
    /\ pc' = "print"
    /\ UNCHANGED <<response, soup, extracted, minified, stdout>>

\* print(f"... '{output_file}'")
PrintSaved ==
    /\ pc = "print"
    /\ stdout' = Append(stdout, "saved")
    /\ pc' = "done"
    /\ UNCHANGED <<response, soup, extracted, minified, output_file, calls>>

Next ==
    \/ RequestsGet
    \/ RequestsGetRaises
    \/ CheckStatus
    \/ Parse
    \/ ExtractComments
    \/ ProcessNode
    \/ MinifyHtml
    \/ Write
    \/ PrintSaved

Spec == Init /\ [][Next]_vars

-----------------------------------------------------------------------------
(* process_node as a function of its argument: one call on any node.       *)

InitReduce ==
    /\ pc = "call_process_node"
    /\ soup \in NodeInputs
    /\ extracted = None
    /\ minified = None
    /\ response = NoResponse
    /\ output_file = NoFile
    /\ stdout = <<>>
    /\ calls = <<>>

CallProcessNode ==
    /\ pc = "call_process_node"
    /\ extracted' = process_node(soup)
    /\ calls' = Append(calls, "process_node")
    /\ pc' = "returned"
    /\ UNCHANGED <<response, soup, minified, output_file, stdout>>

NextReduce == CallProcessNode

SpecReduce == InitReduce /\ [][NextReduce]_vars

-----------------------------------------------------------------------------
(* minify_html as a function of its argument: main from the call of        *)
(* minify_html on, with any string in the place of extracted.              *)

MinifyChars == {"a", " ", "\n", "\t"}

InitMinify ==
    /\ pc = "minify_html"
    /\ extracted \in SeqUpTo(MinifyChars, MaxLen)
    /\ minified = None
    /\ response = NoResponse
    /\ soup = NoneNode
    /\ output_file = NoFile
    /\ stdout = <<>>
    /\ calls = <<>>

NextMinify ==
    \/ MinifyHtml
    \/ Write
    \/ PrintSaved

SpecMinify == InitMinify /\ [][NextMinify]_vars

-----------------------------------------------------------------------------
(* Vocabulary of the properties.                                           *)

\* Every node of the tree rooted at n.
RECURSIVE Subnodes(_)
Subnodes(n) ==
    {n} \cup UNION {Subnodes(n.children[i]) : i \in 1..Len(n.children)}

\* The node at a path of child indexes below n.
RECURSIVE NodeAt(_, _)
NodeAt(n, path) ==
    IF path = <<>> THEN n ELSE NodeAt(n.children[Head(path)], Tail(path))

IsElement(n) == n.kind = "Tag"

TagOf(n) == lower(n.name)

\* The ignore-set and the allow-set as the specification lists them.
IgnoreSet ==
    { <<"s","c","r","i","p","t">>, <<"s","t","y","l","e">>,
      <<"n","o","s","c","r","i","p","t">>, <<"i","f","r","a","m","e">>,
      <<"i","n","p","u","t">>, <<"i","m","g">>, <<"l","i","n","k">> }

AllowSet ==
    { <<"h","t","m","l">>, <<"h","e","a","d">>, <<"b","o","d","y">>,
      <<"d","i","v">>, <<"s","p","a","n">>, <<"p">>,
      <<"h","1">>, <<"h","2">>, <<"h","3">>, <<"h","4">>, <<"h","5">>, <<"h","6">>,
      <<"l","i">>, <<"u","l">>, <<"o","l">>, <<"a">>,
      <<"b","u","t","t","o","n">>, <<"n","a","v">>, <<"f","o","r","m">> }

IsIgnored(n) == IsElement(n) /\ TagOf(n) \in IgnoreSet

IsMeta(n) == IsElement(n) /\ TagOf(n) = <<"m","e","t","a">>

IsTitle(n) == IsElement(n) /\ TagOf(n) = <<"t","i","t","l","e">>

IsWrappable(n) == IsElement(n) /\ TagOf(n) \in AllowSet

\* An element that recurses into its children.
Recurses(n) == IsElement(n) /\ ~IsIgnored(n) /\ ~IsMeta(n)

IsTransparent(n) == Recurses(n) /\ ~IsTitle(n) /\ ~IsWrappable(n)

\* The results of the children, in document order, and their concatenation
\* with nothing between the parts.
Results(n) == [i \in 1..Len(n.children) |-> process_node(n.children[i])]

RECURSIVE Concat(_, _)
Concat(parts, i) ==
    IF i > Len(parts) THEN <<>> ELSE parts[i] \o Concat(parts, i + 1)

ChildrenContent(n) == Concat(Results(n), 1)

\* "<name>" content "</name>"
Marked(name, content) ==
    <<"<">> \o name \o <<">">> \o content \o <<"<", "/">> \o name \o <<">">>

\* The value of an attribute, the empty string when it is absent.
AttrValue(n, k) ==
    LET at == {i \in 1..Len(n.attrs) : n.attrs[i].key = k}
    IN  IF at = {} THEN <<>> ELSE n.attrs[CHOOSE i \in at : TRUE].value

Returned == pc = "returned" /\ extracted = process_node(soup)

-----------------------------------------------------------------------------
(* C1: an element whose lower-cased tag is in the ignore-set reduces to    *)
(* the empty string whatever its children are (the same element without    *)
(* children reduces to the same string), and process_node is never called  *)
(* on a node below an ignored element.                                     *)
C1_IgnoredElementIsEmpty ==
    /\ \A n \in Subnodes(soup) :
          IsIgnored(n) =>
             /\ process_node(n) = <<>>
             /\ process_node([n EXCEPT !.children = <<>>]) = process_node(n)
    /\ LET called == process_node_calls(soup, <<>>)
       IN  \A k \in 1..Len(called) :
              \A m \in 0..(Len(called[k]) - 1) :
                 ~IsIgnored(NodeAt(soup, SubSeq(called[k], 1, m)))
    /\ pc = "returned" => extracted = process_node(soup)

C1_Witness ==
    /\ Returned
    /\ IsIgnored(soup)
    /\ TagOf(soup) # soup.name
    /\ Len(soup.children) = 2
    /\ \E i \in 1..2 : soup.children[i] = txt_Hi
    /\ extracted = <<>>

-----------------------------------------------------------------------------
(* C2: a meta element reduces to <Description>trim(content)</Description>  *)
(* exactly when its lower-cased name is "description" or its lower-cased   *)
(* property is "og:description" and the trimmed content is not empty, and  *)
(* to the empty string otherwise; absent attributes count as empty and the *)
(* children do not matter.                                                 *)
C2_MetaDescription ==
    \A n \in Subnodes(soup) :
       IsMeta(n) =>
          LET matches == \/ lower(AttrValue(n, "name")) = <<"d","e","s","c","r","i","p","t","i","o","n">>
                         \/ lower(AttrValue(n, "property")) = <<"o","g",":","d","e","s","c","r","i","p","t","i","o","n">>
              content == strip(AttrValue(n, "content"))
          IN  /\ process_node(n) =
                    IF matches /\ content # <<>>
                    THEN Marked(<<"D","e","s","c","r","i","p","t","i","o","n">>, content)
                    ELSE <<>>
              /\ process_node([n EXCEPT !.children = <<>>]) = process_node(n)

C2_Witness ==
    /\ Returned
    /\ IsMeta(soup)
    /\ AttrValue(soup, "name") = <<"k","e","y","w","o","r","d","s">>
    /\ AttrValue(soup, "property") = <<"O","G",":","D","e","s","c","r","i","p","t","i","o","n">>
    /\ soup.children # <<>>
    /\ extracted = Marked(<<"D","e","s","c","r","i","p","t","i","o","n">>, <<"X">>)

-----------------------------------------------------------------------------
(* C3: a title or allow-set element reduces to the empty string when the   *)
(* trimmed concatenation c of its children's results is empty, and to c in *)
(* its marker otherwise: <Title>c</Title>, or <tag>c</tag> with the        *)
(* lower-cased tag.  The specification's worked examples are included.     *)
C3_WrapOrElide ==
    /\ \A n \in Subnodes(soup) :
          (IsTitle(n) \/ IsWrappable(n)) =>
             LET c == strip(ChildrenContent(n))
             IN  process_node(n) =
                    IF c = <<>> THEN <<>>
                    ELSE IF IsTitle(n) THEN Marked(<<"T","i","t","l","e">>, c)
                    ELSE Marked(TagOf(n), c)
    /\ soup = ex_div_p_span /\ pc = "returned" =>
          extracted = <<"<","d","i","v",">","<","p",">","H","i","<","/","p",">","<","/","d","i","v",">">>
    /\ soup = ex_title /\ pc = "returned" =>
          extracted = <<"<","T","i","t","l","e",">","A","B","<","/","T","i","t","l","e",">">>
    /\ soup = ex_div_script /\ pc = "returned" => extracted = <<>>

C3_Witness ==
    /\ Returned
    /\ soup = ex_div_p_span
    /\ extracted = Marked(<<"d","i","v">>, Marked(<<"p">>, <<"H","i">>))

-----------------------------------------------------------------------------
(* C4: an element that is not ignored, not meta, not title and not in the  *)
(* allow-set reduces to the trimmed concatenation of its children's        *)
(* results with no marker of its own, and replacing such an element by its *)
(* children in its parent's child list leaves the parent's result          *)
(* unchanged.                                                              *)
Spliced(parent, i) ==
    [parent EXCEPT !.children =
        SubSeq(parent.children, 1, i - 1) \o parent.children[i].children
        \o SubSeq(parent.children, i + 1, Len(parent.children))]

C4_TransparentElement ==
    /\ \A n \in Subnodes(soup) :
          IsTransparent(n) => process_node(n) = strip(ChildrenContent(n))
    /\ \A parent \in Subnodes(soup) :
          \A i \in 1..Len(parent.children) :
             IsTransparent(parent.children[i]) =>
                process_node(Spliced(parent, i)) = process_node(parent)
    /\ pc = "returned" /\ IsTransparent(soup) => extracted = strip(ChildrenContent(soup))

C4_Witness ==
    /\ Returned
    /\ IsWrappable(soup)
    /\ Len(soup.children) = 2
    /\ IsTransparent(soup.children[1])
    /\ Len(soup.children[1].children) = 2
    /\ process_node(soup.children[1]) # <<>>
    /\ soup.children[2] = txt_Hi
    /\ extracted = Marked(<<"h","t","m","l">>, <<"A","\n"," ","B","H","i">>)

-----------------------------------------------------------------------------
(* C5: an element that recurses into its children emits the results of     *)
(* the children concatenated in document order with nothing between them   *)
(* and nothing removed: its result is that concatenation, bare or inside   *)
(* the element's marker, or empty when the concatenation is empty.         *)
C5_DocumentOrder ==
    /\ \A n \in Subnodes(soup) :
          Recurses(n) =>
             LET c == ChildrenContent(n)
             IN  process_node(n) =
                    IF c = <<>> THEN <<>>
                    ELSE IF IsTitle(n) THEN Marked(<<"T","i","t","l","e">>, c)
                    ELSE IF IsWrappable(n) THEN Marked(TagOf(n), c)
                    ELSE c
    /\ soup = ex_three_children /\ pc = "returned" =>
          extracted = Marked(<<"d","i","v">>,
                             process_node(soup.children[1])
                             \o process_node(soup.children[2])
                             \o process_node(soup.children[3]))

C5_Witness ==
    /\ Returned
    /\ soup = ex_three_children
    /\ extracted = <<"<","d","i","v",">","H","i","<","p",">","A","\n"," ","B","<","/","p",">","B","<","/","d","i","v",">">>

-----------------------------------------------------------------------------
(* C7: process_node returns a string for a node of every variant: the      *)
(* empty string for a comment, whatever its character data, the trimmed    *)
(* data for a text node (empty when the data is all whitespace), the empty *)
(* string for a node without a name.                                       *)
C7_TotalWithFallbacks ==
    /\ \A n \in Subnodes(soup) :
          /\ process_node(n) \in Seq(Char)
          /\ n.kind = "Comment" => process_node(n) = <<>>
          /\ n.kind = "NavigableString" => process_node(n) = strip(n.data)
          /\ n.kind = "object" => process_node(n) = <<>>
    /\ pc = "returned" => extracted \in Seq(Char)

C7_Witness ==
    /\ Returned
    /\ soup.kind = "Comment"
    /\ strip(soup.data) # <<>>
    /\ extracted = <<>>

-----------------------------------------------------------------------------
(* C6: minify_html is idempotent, and its result is the input with every   *)
(* maximal run of whitespace replaced by one space and both ends trimmed:  *)
(* no whitespace but single spaces between the words, the other characters *)
(* kept in order.                                                          *)
NonSpace(s) == SelectSeq(s, LAMBDA c : ~isspace(c))

Normalised(s) ==
    /\ \A i \in 1..Len(s) : isspace(s[i]) =>
          /\ s[i] = " "
          /\ 1 < i /\ i < Len(s)
          /\ ~isspace(s[i + 1])

\* The number of words: maximal runs of characters that are not whitespace.
Words(s) ==
    Cardinality({i \in 1..Len(s) : ~isspace(s[i]) /\ (i = 1 \/ isspace(s[i - 1]))})

C6_MinifyIdempotent ==
    /\ minified # None =>
          /\ minified = minify_html(extracted)
          /\ minify_html(minified) = minified
          /\ Normalised(minified)
          /\ NonSpace(minified) = NonSpace(extracted)
          /\ Words(minified) = Words(extracted)
    /\ minify_html(<<" ","a"," ","\n","\n"," ","b"," ","\t"," ","c"," ">>)
          = <<"a"," ","b"," ","c">>

C6_Witness ==
    /\ pc = "done"
    /\ extracted = <<"\n","a","\t"," ","a">>
    /\ minified = <<"a"," ","a">>
    /\ output_file = minified

-----------------------------------------------------------------------------
(* C8: the comment-stripping pass of main is redundant: what main reduces  *)
(* after the pass equals process_node on the root of the tree as parsed,   *)
(* and so does the minified output.                                        *)
HasComment(tree) == \E n \in Subnodes(tree) : n.kind = "Comment"

C8_CommentPassRedundant ==
    /\ extracted # None =>
          extracted = process_node(root(response.text))
    /\ minified # None =>
          minified = minify_html(process_node(root(response.text)))
    /\ pc \in {"print", "done"} /\ response.status_code = HTTP_OK =>
          output_file = minify_html(process_node(root(response.text)))

C8_Witness ==
    /\ pc = "done"
    /\ HasComment(response.text)
    /\ ~HasComment(soup)
    /\ \E n \in Subnodes(response.text) :
          /\ Len(n.children) = 2
          /\ n.children[1].kind = "Comment"
          /\ n.children[2] = txt_A_B
    /\ extracted # <<>>
    /\ output_file = minified

-----------------------------------------------------------------------------
(* C9: main runs fetch, status check, parse, reduce, minify, write in that *)
(* order; after a response whose status is not 200 it reports the error    *)
(* and returns with nothing parsed, process_node and minify_html not       *)
(* called and the output file untouched; the file is written only after    *)
(* both calls, and holds minify_html(process_node(root)).                  *)
MainOrder ==
    <<"requests.get", "BeautifulSoup", "process_node", "minify_html", "write">>

Written == output_file \notin {NoFile, StaleFile}

Called(f) == \E i \in 1..Len(calls) : calls[i] = f

C9_MainOrder ==
    /\ Len(calls) <= Len(MainOrder)
    /\ calls = SubSeq(MainOrder, 1, Len(calls))
    /\ (response # NoResponse /\ response.status_code # HTTP_OK) =>
          /\ pc \in {"check_status", "done"}
          /\ pc = "done" => stdout = <<"request error">>
          /\ calls = <<"requests.get">>
          /\ soup = NoneNode
          /\ extracted = None
          /\ minified = None
          /\ ~Written
    /\ Written =>
          /\ response.status_code = HTTP_OK
          /\ Called("process_node") /\ Called("minify_html")
          /\ output_file = minify_html(process_node(root(soup)))
    /\ pc = "done" /\ response.status_code = HTTP_OK => Written

C9_Witness ==
    /\ pc = "done"
    /\ response.status_code = 404
    /\ stdout = <<"request error">>
    /\ output_file = StaleFile
    /\ calls = <<"requests.get">>

-----------------------------------------------------------------------------
(* C10: the result of process_node read as opening markers, closing        *)
(* markers and text.                                                       *)

\* s read from the left: "<" opens a marker that ends at the next ">"; a
\* marker whose name starts with "/" closes the marker opened last, which
\* must bear the same name and must not stand right before it.  `open` is
\* the stack of markers still open, `fresh` says that the token just read
\* was an opening marker.
RECURSIVE WellNested(_, _, _)
WellNested(s, open, fresh) ==
    IF s = <<>> THEN open = <<>>
    ELSE IF Head(s) # "<" THEN WellNested(Tail(s), open, FALSE)
    ELSE LET closers == {i \in 1..Len(s) : s[i] = ">"}
         IN  IF closers = {} THEN FALSE
             ELSE LET j == CHOOSE i \in closers : \A k \in closers : i <= k
                      name == SubSeq(s, 2, j - 1)
                      rest == SubSeq(s, j + 1, Len(s))
                  IN  IF name # <<>> /\ Head(name) = "/"
                      THEN /\ ~fresh
                           /\ open # <<>>
                           /\ open[Len(open)] = Tail(name)
                           /\ WellNested(rest, SubSeq(open, 1, Len(open) - 1), FALSE)
                      ELSE WellNested(rest, Append(open, name), TRUE)

Balanced(s) == WellNested(s, <<>>, FALSE)

\* Empty, or whitespace neither first nor last.
Trimmed(s) == s = <<>> \/ (~isspace(s[1]) /\ ~isspace(s[Len(s)]))

HasAngle(s) == \E i \in 1..Len(s) : s[i] = "<"

\* No text node and no content attribute of the tree holds a "<".
NoAngleInText(tree) ==
    \A n \in Subnodes(tree) :
       /\ n.kind = "NavigableString" => ~HasAngle(n.data)
       /\ ~HasAngle(AttrValue(n, "content"))

TrimRemovesNothing ==
    \A n \in Subnodes(soup) :
       /\ Trimmed(process_node(n))
       /\ Recurses(n) => strip(ChildrenContent(n)) = ChildrenContent(n)

\* C10 as stated: for every tree the markers of the result are balanced
\* and properly nested, no marker pair encloses empty content, and the
\* result is empty or begins and ends with a character that is not
\* whitespace, so that the trim after the concatenation removes nothing.
C10_AsStated ==
    pc = "returned" =>
       /\ Balanced(extracted)
       /\ \A n \in Subnodes(soup) : Balanced(process_node(n))
       /\ Trimmed(extracted)
       /\ TrimRemovesNothing

\* C10 as amended: the markers are balanced, properly nested and never
\* empty for every tree whose text nodes and content attributes hold no
\* "<"; for every tree the result is empty or begins and ends with a
\* character that is not whitespace, and the trim removes nothing.
C10_Amended ==
    /\ NoAngleInText(soup) =>
          /\ \A n \in Subnodes(soup) : Balanced(process_node(n))
          /\ pc = "returned" => Balanced(extracted)
    /\ TrimRemovesNothing
    /\ pc = "returned" => Trimmed(extracted)

C10_Witness ==
    /\ Returned
    /\ NoAngleInText(soup)
    /\ soup.name = <<"D","I","V">>
    /\ Len(soup.children) = 2
    /\ soup.children[1] = txt_A_B
    /\ soup.children[2] = meta_X
    /\ extracted = Marked(<<"d","i","v">>,
                          <<"A","\n"," ","B">> \o Marked(<<"D","e","s","c","r","i","p","t","i","o","n">>, <<"X">>))
    /\ Balanced(extracted)

=============================================================================
